---------------------------- MODULE Spec2Model ----------------------------
(***************************************************************************)
(* A model of portablemc's task-based installer (core/portablemc/task.py)  *)
(* and of the way fabric.py plugs a task into it.                          *)
(*                                                                         *)
(* The installer is single threaded: its caller invokes one method at a    *)
(* time.  pc = "idle" is the caller between two calls.  insert_task,       *)
(* add_watcher and remove_watcher are one action each.  append_task and    *)
(* prepend_task are one action per iteration of their `for` loop, because  *)
(* the loop inserts into the list it iterates.  install is one action per  *)
(* watcher notification and per execute call/return, so that the order of  *)
(* the events it produces is a property of the behaviour.                  *)
(*                                                                         *)
(* List indexes are Python's (0-based) in the variables i, k and in the    *)
(* index arguments; tasks[j + 1] is Python's self._tasks[j].               *)
(*                                                                         *)
(* Further specifications share the variables: StateSpec is the State      *)
(* dict used on its own; FabricSpec is the installer with its State and    *)
(* FabricInitTask.execute called with a state and a watcher; DownloadSpec  *)
(* is a run of the download engine under cmd; ResolveSpec is the metadata  *)
(* resolution loop under cmd; CmdSpec is cmd (cli/__init__.py) handling    *)
(* the exception of its handler; WatcherSpec is the DownloadWatcher fed    *)
(* with download events.  The download engine and the resolution          *)
(* loop are not part of the sources at hand (download.py, vanilla.py):     *)
(* they follow the written specification of the program.                   *)
(***************************************************************************)
EXTENDS Integers, Sequences, FiniteSets, TLC

\* The longest task list the model lets the program build.
MaxTasks == 3
\* How many times the caller adds one watcher before removing it.
MaxAdds == 2

\* The task objects the caller may construct, and the watcher objects.
TaskObjs == {1, 2, 3}
Watchers == {"w1", "w2"}

None == "None"

\* type(task): the class of each task object.  MetadataTask and
\* FabricInitTask are the two task classes fabric.py names; there are two
\* MetadataTask objects, so that a list can hold two tasks of one type.
TypeOf(t) == IF t = 2 THEN "FabricInitTask" ELSE "MetadataTask"

\* The classes a caller may name as `after` / `before`: the two above and
\* Task itself, of which no object in a list is a direct instance.
TaskTypes == {TypeOf(t) : t \in TaskObjs} \cup {"Task"}

Range(s) == {s[j] : j \in 1..Len(s)}

VARIABLES
    tasks,      \* Installer._tasks, a list of task objects
    watchers,   \* Installer._watchers, a set of watcher objects
    pc,         \* where the caller is: "idle" or inside a method
    task,       \* the local name `task` of append_task / prepend_task
    i,          \* the index enumerate() gives in their loop
    k,          \* install: index of the task being handled
    phase,      \* install: "begin", "executing", "end"
    todo,       \* install: watchers the running `for watcher` loop has left
    log,        \* the calls the running (or last) install made, in order
    result,     \* how the last method ended: "returned", an exception, "none"
    call,       \* the arguments of the running (or last) method call
    opSetups,   \* the setup calls the running (or last) method made
    matched,    \* append/prepend: the loop found a task of the anchor type
    passed,     \* the task objects the caller has passed to the installer
    regOrder,   \* the attached watchers, in the order of their add_watcher
    addCalls,   \* per watcher, add_watcher calls since it was last detached
    data,       \* State.data, a dict from a type to the instance stored
    hist,       \* per type, the last value the State's user inserted
                \* since the State was last cleared
    dl,         \* the download engine: queue, workers, failures, events
    res,        \* the metadata resolution loop: current id, visited ids
    cli,        \* cmd(): the exception its handler raised, what it printed
    dw          \* the DownloadWatcher: its fields, the line it displays

vars == <<tasks, watchers, pc, task, i, k, phase, todo, log, result, call,
          opSetups, matched, passed, regOrder, addCalls, data, hist, dl,
          res, cli, dw>>

installVars == <<k, phase, todo, log>>
loopVars == <<task, i, matched>>
watcherVars == <<watchers, regOrder, addCalls>>
installerVars == <<tasks, task, i, k, phase, todo, opSetups, matched, passed,
                   watcherVars>>
otherVars == <<hist, dl, res, cli, dw>>

---------------------------------------------------------------------------
ListInsertWrap(s, index, x) ==
    LET n == Len(s)
        j == IF index < 0
             THEN (IF index + n < 0 THEN 0 ELSE index + n)
             ELSE (IF index >= n THEN 0 ELSE index)
    IN SubSeq(s, 1, j) \o <<x>> \o SubSeq(s, j + 1, n)

(* Python's list.insert(index, x): a negative index counts from the end,   *)
(* and an index outside the list is clamped to its nearest end.            *)
ListInsert(s, index, x) ==
    LET n == Len(s)
        j == IF index < 0
             THEN (IF index + n < 0 THEN 0 ELSE index + n)
             ELSE (IF index > n THEN n ELSE index)
    IN SubSeq(s, 1, j) \o <<x>> \o SubSeq(s, j + 1, n)

(* Installer.insert_task: the list after self._tasks.insert(index, task).  *)
InsertTaskList(ts, t, index) == ListInsert(ts, index, t)

(* Installer.insert_task: the record of its task.setup(self._state) call,  *)
(* made after the insertion.                                               *)
SetupCall(ts, t) == [task |-> t, inList |-> t \in Range(ts)]

---------------------------------------------------------------------------
(* State.data is a dict keyed by type: a function from the names of the    *)
(* types that have an instance to that instance.  An instance is a record  *)
(* whose field ty is its type.                                             *)
EmptyData == [q \in {} |-> 0]

(* d[key] = v on a dict.                                                   *)
DictSet(d, key, v) ==
    [q \in DOMAIN d \cup {key} |-> IF q = key THEN v ELSE d[q]]

(* Python's None, as a value a method returns.                             *)
NoneValue == [ty |-> "NoneType"]

(* type(value).                                                            *)
TypeKey(v) == v.ty

StateClearKeep(d) == d

(* State.clear: self.data.clear().                                         *)
StateClear(d) == EmptyData

(* An exception raised in place of a returned value.                       *)
KeyErrorValue == [ty |-> "KeyError"]

StateGetRaising(d, ty) == IF ty \in DOMAIN d THEN d[ty] ELSE KeyErrorValue

StateGetDefaultRoot(d, ty) ==
    IF ty \in DOMAIN d THEN d[ty]
    ELSE [ty |-> "FabricRoot", api |-> "fabric", prefix |-> "fabric",
          vanilla_version |-> "1.20.1", loader_version |-> "0.14.21"]

(* State.get: self.data.get(ty), which is None for a missing key.          *)
StateGet(d, ty) == IF ty \in DOMAIN d THEN d[ty] ELSE NoneValue

StateInsertFirst(d, v) ==
    IF TypeKey(v) \in DOMAIN d THEN d ELSE DictSet(d, TypeKey(v), v)

(* State.insert: self.data[type(value)] = value.                           *)
StateInsert(d, v) == DictSet(d, TypeKey(v), v)

(* State.__contains__ and State.__getitem__; the latter is self.data[ty],  *)
(* which raises KeyError for a missing key.                                *)
StateContains(d, ty) == ty \in DOMAIN d
StateGetItem(d, ty) == IF ty \in DOMAIN d THEN d[ty] ELSE KeyErrorValue

(* How a call that produced v ended.                                       *)
Outcome(v) == IF TypeKey(v) = "KeyError" THEN "KeyError" ELSE "returned"

(* The instances the tasks and the caller store.  FabricRoot's fields are  *)
(* its constructor's; api is the name of the FabricApi constant.           *)
FabricRoot(api, prefix, vanilla_version, loader_version) ==
    [ty |-> "FabricRoot", api |-> api, prefix |-> prefix,
     vanilla_version |-> vanilla_version, loader_version |-> loader_version]

(* MetadataRoot(version_id), as FabricInitTask.execute constructs it.      *)
MetadataRoot(version_id) == [ty |-> "MetadataRoot", version |-> version_id]

(* FabricRepository(api, version_id, vanilla_version, loader_version).     *)
FabricRepository(api, version_id, vanilla_version, loader_version) ==
    [ty |-> "FabricRepository", api |-> api, version_id |-> version_id,
     vanilla_version |-> vanilla_version, loader_version |-> loader_version]

(* A VersionRepositories instance: the repository registered for each     *)
(* version id that has one.  A new instance has none.                      *)
VersionRepositories(repos) == [ty |-> "VersionRepositories", repos |-> repos]
NewRepositories == VersionRepositories(EmptyData)

(* VersionRepositories.insert(version_id, repository).                     *)
RepositoriesInsert(vr, version_id, repository) ==
    VersionRepositories(DictSet(vr.repos, version_id, repository))

(* Task.setup, which FabricInitTask inherits: a no-op.                     *)
TaskSetup(d) == d

(* MetadataTask.setup: the registration-time hook that inserts the default *)
(* state of the metadata step, the VersionRepositories that                *)
(* FabricInitTask.execute reads with state[VersionRepositories].           *)
MetadataSetup(d) == StateInsert(d, NewRepositories)

(* task.setup(self._state), dispatched on the class of the task.           *)
Setup(t, d) ==
    IF TypeOf(t) = "FabricInitTask" THEN TaskSetup(d) ELSE MetadataSetup(d)

---------------------------------------------------------------------------
(* The download engine, the resolution loop and cmd() before they start.   *)
DlIdle ==
    [pc |-> "idle", queue |-> {}, live |-> {}, cur |-> <<>>,
     assigned |-> <<>>, attempts |-> <<>>, status |-> <<>>,
     failures |-> <<>>, events |-> <<>>, outcome |-> "none",
     carried |-> <<>>]
ResIdle ==
    [pc |-> "idle", root |-> None, cur |-> None, chain |-> <<>>,
     depth |-> 0, parent |-> <<>>]
CliIdle ==
    [pc |-> "idle", code |-> -1,
     exc |-> [cls |-> None, reason |-> None, args |-> <<>>, errors |-> <<>>,
              versions |-> <<>>],
     out |-> <<>>]

(* A DownloadWatcher as __init__ leaves it: its fields are declared, not   *)
(* assigned, and nothing is on display.                                    *)
DwNew ==
    [started |-> FALSE, entries_count |-> 0, total_size |-> 0, size |-> 0,
     speeds |-> <<>>,
     shown |-> [state |-> None, key |-> None, speed |-> 0, count |-> 0,
                total_count |-> 0, size |-> 0],
     seen |-> <<>>, starts |-> 0]

NoCall == [name |-> "none", task |-> 0, anchor |-> None, index |-> 0,
           tasks0 |-> <<>>, watcher |-> None, adds |-> 0,
           value |-> NoneValue, key |-> None, ret |-> NoneValue,
           data0 |-> EmptyData, watchers0 |-> {}, prev |-> "none",
           prevValue |-> NoneValue, prevKeys |-> {}, prevKey |-> None,
           prevResult |-> "none"]

Init ==
    /\ tasks = <<>>
    /\ watchers = {}
    /\ pc = "idle"
    /\ task = 0
    /\ i = 0
    /\ k = 0
    /\ phase = "none"
    /\ todo = {}
    /\ log = <<>>
    /\ result = "none"
    /\ call = NoCall
    /\ opSetups = <<>>
    /\ matched = FALSE
    /\ passed = {}
    /\ regOrder = <<>>
    /\ addCalls = [w \in Watchers |-> 0]
    /\ data = EmptyData
    /\ hist = EmptyData
    /\ dl = DlIdle
    /\ res = ResIdle
    /\ cli = CliIdle
    /\ dw = DwNew

(* The caller constructs a task object and passes it once.                 *)
Fresh == TaskObjs \ passed

(* insert_task(task, index), called by the user of the installer.          *)
InsertTask(t, index) ==
    /\ pc = "idle"
    /\ Len(tasks) < MaxTasks
    /\ tasks' = InsertTaskList(tasks, t, index)
    /\ opSetups' = <<SetupCall(tasks', t)>>
    /\ data' = Setup(t, data)
    /\ call' = [NoCall EXCEPT !.name = "insert_task", !.task = t,
                              !.index = index, !.tasks0 = tasks]
    /\ passed' = passed \cup {t}
    /\ result' = "returned"
    /\ log' = <<>>
    /\ task' = t
    /\ i' = 0
    /\ k' = 0
    /\ matched' = FALSE
    /\ UNCHANGED <<pc, phase, todo, watcherVars, otherVars>>

(* append_task(task, after=...): the call.  With after None the body is    *)
(* the single insert_task(task, len(self._tasks)); otherwise control       *)
(* enters the `for i, task in enumerate(self._tasks)` loop.                *)
AppendTask(t, after) ==
    /\ pc = "idle"
    /\ Len(tasks) < MaxTasks
    /\ call' = [NoCall EXCEPT !.name = "append_task", !.task = t,
                              !.anchor = after, !.tasks0 = tasks]
    /\ passed' = passed \cup {t}
    /\ log' = <<>>
    /\ matched' = FALSE
    /\ task' = t
    /\ i' = 0
    /\ k' = 0
    /\ IF after = None
       THEN /\ tasks' = InsertTaskList(tasks, t, Len(tasks))
            /\ opSetups' = <<SetupCall(tasks', t)>>
            /\ data' = Setup(t, data)
            /\ result' = "returned"
            /\ pc' = "idle"
       ELSE /\ tasks' = tasks
            /\ data' = data
            /\ opSetups' = <<>>
            /\ result' = "none"
            /\ pc' = "append_loop"
    /\ UNCHANGED <<phase, todo, watcherVars, otherVars>>

(* One iteration of append_task's loop: the list iterator yields           *)
(* self._tasks[i] into the name `task` (the parameter's own name), and a   *)
(* task of the anchor type makes the body call insert_task(task, i + 1).   *)
(* The list is capped at MaxTasks: the program itself has no such cap.     *)
AppendLoop ==
    /\ pc = "append_loop"
    /\ i < Len(tasks)
    /\ task' = tasks[i + 1]
    /\ i' = i + 1
    /\ IF TypeOf(task') = call.anchor
       THEN /\ Len(tasks) < MaxTasks
            /\ tasks' = InsertTaskList(tasks, task', i + 1)
            /\ opSetups' = Append(opSetups, SetupCall(tasks', task'))
            /\ data' = Setup(task', data)
            /\ matched' = TRUE
       ELSE UNCHANGED <<tasks, opSetups, matched, data>>
    /\ UNCHANGED <<pc, installVars, result, call, passed, watcherVars,
                   otherVars>>

(* The loop is exhausted: insert_task(task, len(self._tasks)), return.     *)
AppendReturn ==
    /\ pc = "append_loop"
    /\ i >= Len(tasks)
    /\ Len(tasks) < MaxTasks
    /\ tasks' = InsertTaskList(tasks, task, Len(tasks))
    /\ opSetups' = Append(opSetups, SetupCall(tasks', task))
    /\ data' = Setup(task, data)
    /\ result' = "returned"
    /\ pc' = "idle"
    /\ UNCHANGED <<loopVars, installVars, call, passed, watcherVars, otherVars>>

(* prepend_task(task, before=...): as append_task, inserting at i and,     *)
(* after the loop, at 0.                                                   *)
PrependTask(t, before) ==
    /\ pc = "idle"
    /\ Len(tasks) < MaxTasks
    /\ call' = [NoCall EXCEPT !.name = "prepend_task", !.task = t,
                              !.anchor = before, !.tasks0 = tasks]
    /\ passed' = passed \cup {t}
    /\ log' = <<>>
    /\ matched' = FALSE
    /\ task' = t
    /\ i' = 0
    /\ k' = 0
    /\ IF before = None
       THEN /\ tasks' = InsertTaskList(tasks, t, 0)
            /\ opSetups' = <<SetupCall(tasks', t)>>
            /\ data' = Setup(t, data)
            /\ result' = "returned"
            /\ pc' = "idle"
       ELSE /\ tasks' = tasks
            /\ data' = data
            /\ opSetups' = <<>>
            /\ result' = "none"
            /\ pc' = "prepend_loop"
    /\ UNCHANGED <<phase, todo, watcherVars, otherVars>>

PrependLoop ==
    /\ pc = "prepend_loop"
    /\ i < Len(tasks)
    /\ task' = tasks[i + 1]
    /\ i' = i + 1
    /\ IF TypeOf(task') = call.anchor
       THEN /\ Len(tasks) < MaxTasks
            /\ tasks' = InsertTaskList(tasks, task', i)
            /\ opSetups' = Append(opSetups, SetupCall(tasks', task'))
            /\ data' = Setup(task', data)
            /\ matched' = TRUE
       ELSE UNCHANGED <<tasks, opSetups, matched, data>>
    /\ UNCHANGED <<pc, installVars, result, call, passed, watcherVars,
                   otherVars>>

PrependReturn ==
    /\ pc = "prepend_loop"
    /\ i >= Len(tasks)
    /\ Len(tasks) < MaxTasks
    /\ tasks' = InsertTaskList(tasks, task, 0)
    /\ opSetups' = Append(opSetups, SetupCall(tasks', task))
    /\ data' = Setup(task, data)
    /\ result' = "returned"
    /\ pc' = "idle"
    /\ UNCHANGED <<loopVars, installVars, call, passed, watcherVars, otherVars>>

---------------------------------------------------------------------------
SetAddToggle(ws, w) == IF w \in ws THEN ws \ {w} ELSE ws \cup {w}

(* set.add and set.remove on Installer._watchers.                          *)
SetAdd(ws, w) == ws \cup {w}
SetRemove(ws, w) == ws \ {w}

Without(s, w) == SelectSeq(s, LAMBDA x : x /= w)

(* add_watcher(watcher).                                                   *)
AddWatcher(w) ==
    /\ pc = "idle"
    /\ addCalls[w] < MaxAdds
    /\ watchers' = SetAdd(watchers, w)
    /\ regOrder' = IF w \in Range(regOrder) THEN regOrder
                   ELSE Append(regOrder, w)
    /\ addCalls' = [addCalls EXCEPT ![w] = @ + 1]
    /\ call' = [NoCall EXCEPT !.name = "add_watcher", !.watcher = w,
                              !.adds = addCalls[w]]
    /\ result' = "returned"
    /\ log' = <<>>
    /\ opSetups' = <<>>
    /\ task' = 0
    /\ i' = 0
    /\ k' = 0
    /\ matched' = FALSE
    /\ UNCHANGED <<tasks, pc, phase, todo, passed, data, otherVars>>

(* remove_watcher(watcher): set.remove raises KeyError for a watcher that  *)
(* is not in the set.                                                      *)
RemoveWatcher(w) ==
    /\ pc = "idle"
    /\ call' = [NoCall EXCEPT !.name = "remove_watcher", !.watcher = w,
                              !.adds = addCalls[w]]
    /\ log' = <<>>
    /\ opSetups' = <<>>
    /\ IF w \in watchers
       THEN /\ watchers' = SetRemove(watchers, w)
            /\ regOrder' = Without(regOrder, w)
            /\ addCalls' = [addCalls EXCEPT ![w] = 0]
            /\ result' = "returned"
       ELSE /\ result' = "KeyError"
            /\ UNCHANGED watcherVars
    /\ task' = 0
    /\ i' = 0
    /\ k' = 0
    /\ matched' = FALSE
    /\ UNCHANGED <<tasks, pc, phase, todo, passed, data, otherVars>>

---------------------------------------------------------------------------
(* The arguments install passes to execute: task.execute(self._state).     *)
ExecuteArgs == <<"state">>

(* The parameters each class's execute declares after self: Task.execute   *)
(* takes the state, FabricInitTask.execute the state and a watcher.        *)
ExecuteParams(ty) ==
    IF ty = "FabricInitTask" THEN <<"state", "watcher">> ELSE <<"state">>

(* How a call of t's execute with these arguments can end.  A call whose   *)
(* arguments do not match the parameters raises TypeError before the body  *)
(* runs; otherwise the body returns or raises an error of its own.         *)
ExecuteOutcomes(t, args) ==
    IF Len(args) /= Len(ExecuteParams(TypeOf(t)))
    THEN {"TypeError"}
    ELSE {"returned", "TaskError"}

AfterExecuteSwallow(outcome) == "end"

(* What install does with the outcome of execute: it has no try block, so  *)
(* anything but a return leaves the method.                                *)
AfterExecute(outcome) == IF outcome = "returned" THEN "end" ELSE "abort"

NextTaskIndexSkip(j) == j + 2

(* The index of the task `for task in self._tasks` yields after index j.   *)
NextTaskIndex(j) == j + 1

LoopWatchersSkip(ws) ==
    IF ws = {} THEN {} ELSE ws \ {CHOOSE w \in ws : TRUE}

(* The watchers one `for watcher in self._watchers` loop visits.           *)
LoopWatchers(ws) == ws

(* One entry of the log: a notification of watcher w, the call of execute  *)
(* with its arguments, or the way that call ended.                         *)
Event(ev, j, t, w, arg) ==
    [ev |-> ev, k |-> j, task |-> t, w |-> w, arg |-> arg]

(* install(): the call.  An empty task list returns at once.               *)
Install ==
    /\ pc = "idle"
    /\ call' = [NoCall EXCEPT !.name = "install", !.tasks0 = tasks]
    /\ log' = <<>>
    /\ opSetups' = <<>>
    /\ k' = 0
    /\ IF tasks = <<>>
       THEN /\ pc' = "idle"
            /\ phase' = "none"
            /\ todo' = {}
            /\ result' = "returned"
       ELSE /\ pc' = "install"
            /\ phase' = "begin"
            /\ todo' = LoopWatchers(watchers)
            /\ result' = "none"
    /\ task' = 0
    /\ i' = 0
    /\ matched' = FALSE
    /\ UNCHANGED <<tasks, passed, watcherVars, data, otherVars>>

(* One iteration of `for watcher in self._watchers: on_task_begin(task)`.  *)
(* A set is iterated in an order its hashing fixes: any watcher left.      *)
InstallBegin ==
    /\ pc = "install"
    /\ phase = "begin"
    /\ \E w \in todo :
         /\ log' = Append(log, Event("on_task_begin", k, tasks[k + 1], w, <<>>))
         /\ todo' = todo \ {w}
    /\ UNCHANGED <<tasks, pc, loopVars, k, phase, result, call, opSetups,
                   passed, watcherVars, data, otherVars>>

(* task.execute(self._state) is called.                                    *)
InstallExecute ==
    /\ pc = "install"
    /\ phase = "begin"
    /\ todo = {}
    /\ log' = Append(log, Event("execute", k, tasks[k + 1], None, ExecuteArgs))
    /\ phase' = "executing"
    /\ UNCHANGED <<tasks, pc, loopVars, k, todo, result, call, opSetups,
                   passed, watcherVars, data, otherVars>>

(* The execute call ends: by returning, or by raising out of install.      *)
InstallExecuted ==
    /\ pc = "install"
    /\ phase = "executing"
    /\ \E outcome \in ExecuteOutcomes(tasks[k + 1], ExecuteArgs) :
         /\ log' = Append(log, Event("executed", k, tasks[k + 1], None,
                                     <<outcome>>))
         /\ IF AfterExecute(outcome) = "end"
            THEN /\ phase' = "end"
                 /\ todo' = LoopWatchers(watchers)
                 /\ UNCHANGED <<pc, result>>
            ELSE /\ phase' = "none"
                 /\ todo' = {}
                 /\ pc' = "idle"
                 /\ result' = outcome
    /\ UNCHANGED <<tasks, loopVars, k, call, opSetups, passed, watcherVars,
                   data, otherVars>>

(* One iteration of `for watcher in self._watchers: on_task_end(task)`.    *)
InstallEnd ==
    /\ pc = "install"
    /\ phase = "end"
    /\ \E w \in todo :
         /\ log' = Append(log, Event("on_task_end", k, tasks[k + 1], w, <<>>))
         /\ todo' = todo \ {w}
    /\ UNCHANGED <<tasks, pc, loopVars, k, phase, result, call, opSetups,
                   passed, watcherVars, data, otherVars>>

(* The outer loop goes to the next task, or install returns.               *)
InstallNext ==
    /\ pc = "install"
    /\ phase = "end"
    /\ todo = {}
    /\ IF NextTaskIndex(k) < Len(tasks)
       THEN /\ k' = NextTaskIndex(k)
            /\ phase' = "begin"
            /\ todo' = LoopWatchers(watchers)
            /\ UNCHANGED <<pc, result>>
       ELSE /\ k' = k
            /\ phase' = "none"
            /\ todo' = {}
            /\ pc' = "idle"
            /\ result' = "returned"
    /\ UNCHANGED <<tasks, loopVars, log, call, opSetups, passed, watcherVars,
                   data, otherVars>>

---------------------------------------------------------------------------
(* The State used on its own: its user calls insert, get and clear.        *)
Apis == {"fabric", "quilt"}
Prefixes == {"fabric"}
VanillaVersions == {"1.20.1"}
LoaderVersions == {"0.14.21"}

(* The FabricRoot markers a caller builds with with_fabric / with_quilt,   *)
(* the loader version being optional.                                      *)
FabricRoots ==
    {FabricRoot(a, p, v, l) : a \in Apis, p \in Prefixes,
                              v \in VanillaVersions,
                              l \in LoaderVersions \cup {None}}

(* The values the user of a State inserts, and the types it asks for.      *)
StateValues ==
    FabricRoots \cup {MetadataRoot("1.20.1"), MetadataRoot("1.19.4"),
                      NewRepositories}
StateTypes == {TypeKey(v) : v \in StateValues}

\* What every call on the State or on a task resets in the installer's
\* bookkeeping of its own calls.
StateCallFrame ==
    /\ pc = "idle"
    /\ log' = <<>>
    /\ opSetups' = <<>>
    /\ task' = 0
    /\ i' = 0
    /\ k' = 0
    /\ matched' = FALSE
    /\ UNCHANGED <<tasks, pc, phase, todo, passed, watcherVars, dl, res, cli,
                   dw>>

(* state.insert(value).                                                    *)
StInsert(v) ==
    /\ StateCallFrame
    /\ data' = StateInsert(data, v)
    /\ hist' = DictSet(hist, TypeKey(v), v)
    /\ call' = [NoCall EXCEPT !.name = "State.insert", !.value = v,
                              !.data0 = data, !.prev = call.name,
                              !.prevValue = call.value,
                              !.prevKeys = DOMAIN call.data0]
    /\ result' = "returned"

(* state.get(ty).                                                          *)
StGet(ty) ==
    /\ StateCallFrame
    /\ call' = [NoCall EXCEPT !.name = "State.get", !.key = ty,
                              !.ret = StateGet(data, ty),
                              !.data0 = data, !.prev = call.name,
                              !.prevValue = call.value,
                              !.prevKeys = DOMAIN call.data0]
    /\ result' = Outcome(call'.ret)
    /\ UNCHANGED <<data, hist>>

(* state.clear().                                                          *)
StClear ==
    /\ StateCallFrame
    /\ data' = StateClear(data)
    /\ hist' = EmptyData
    /\ call' = [NoCall EXCEPT !.name = "State.clear", !.data0 = data,
                              !.prev = call.name,
                              !.prevValue = call.value,
                              !.prevKeys = DOMAIN call.data0]
    /\ result' = "returned"

StateNext ==
    \/ \E v \in StateValues : StInsert(v)
    \/ \E ty \in StateTypes : StGet(ty)
    \/ StClear

StateSpec == Init /\ [][StateNext]_vars

---------------------------------------------------------------------------
(* The installer with its State: tasks are inserted, a FabricRoot is       *)
(* stored, FabricInitTask.execute is called with a state and a watcher,    *)
(* and the installer is reset.                                             *)

(* reset(): the setup calls of `for task in self._tasks`, and the State    *)
(* they leave, from the first task to the last.                            *)
RECURSIVE ResetSetups(_, _)
ResetSetups(ts, j) ==
    IF j > Len(ts) THEN <<>>
    ELSE <<SetupCall(ts, ts[j])>> \o ResetSetups(ts, j + 1)

RECURSIVE ResetState(_, _, _)
ResetState(ts, j, d) ==
    IF j > Len(ts) THEN d ELSE ResetState(ts, j + 1, Setup(ts[j], d))

(* reset().                                                                *)
Reset ==
    /\ pc = "idle"
    /\ data' = ResetState(tasks, 1, StateClear(data))
    /\ hist' = EmptyData
    /\ opSetups' = ResetSetups(tasks, 1)
    /\ call' = [NoCall EXCEPT !.name = "reset", !.tasks0 = tasks,
                              !.data0 = data, !.watchers0 = watchers,
                              !.prev = call.name]
    /\ result' = "returned"
    /\ log' = <<>>
    /\ task' = IF tasks = <<>> THEN 0 ELSE tasks[Len(tasks)]
    /\ i' = 0
    /\ k' = 0
    /\ matched' = FALSE
    /\ UNCHANGED <<tasks, pc, phase, todo, passed, watcherVars, dl, res, cli,
                   dw>>

(* The loader versions the backend may answer with, and the failure of the *)
(* request (http_request raising).                                         *)
BackendAnswers == {"0.14.21", "0.15.0"}
RequestFailed == "OSError"

VersionIdColon(prefix, vanilla_version, loader_version) ==
    prefix \o ":" \o vanilla_version \o ":" \o loader_version

(* f"{root.prefix}-{vanilla_version}-{loader_version}".                    *)
VersionId(prefix, vanilla_version, loader_version) ==
    prefix \o "-" \o vanilla_version \o "-" \o loader_version

(* FabricResolveEvent(api, vanilla_version, loader_version) delivered to   *)
(* watcher.on_event, and the request_fabric_loader_version call, as log    *)
(* entries.                                                                *)
FabricResolveEvent(w, api, vanilla_version, loader_version) ==
    Event("on_event", 0, 2, w,
          <<"FabricResolveEvent", api, vanilla_version, loader_version>>)
LoaderRequest(api, vanilla_version) ==
    Event("request", 0, 2, None, <<api, "versions/loader/", vanilla_version>>)

(* FabricInitTask.execute(state, watcher), the backend answering the       *)
(* request, if one is made, with `answer`.                                 *)
FabricExecute(answer) ==
    LET w == "w1"
        root == StateGet(data, "FabricRoot")
        asked == root.loader_version = None
        loader == IF asked THEN answer ELSE root.loader_version
        before == IF asked
                  THEN <<FabricResolveEvent(w, root.api,
                                            root.vanilla_version, None),
                         LoaderRequest(root.api, root.vanilla_version)>>
                  ELSE <<>>
        version_id == VersionId(root.prefix, root.vanilla_version, loader)
        d1 == StateInsert(data, MetadataRoot(version_id))
        vr == StateGetItem(d1, "VersionRepositories")
    IN
    /\ pc = "idle"
    /\ call' = [NoCall EXCEPT !.name = "execute", !.task = 2,
                              !.watcher = w, !.data0 = data,
                              !.value = root, !.key = answer,
                              !.prev = call.name,
                              !.prevKey = call.key,
                              !.prevResult = result]
    /\ IF root = NoneValue
       THEN /\ log' = <<>>
            /\ data' = data
            /\ result' = "returned"
       ELSE IF asked /\ answer = RequestFailed
       THEN /\ log' = before
            /\ data' = data
            /\ result' = RequestFailed
       ELSE /\ log' = Append(before,
                        FabricResolveEvent(w, root.api, root.vanilla_version,
                                           loader))
            /\ result' = Outcome(vr)
            /\ data' = IF Outcome(vr) = "returned"
                       THEN DictSet(d1, "VersionRepositories",
                                RepositoriesInsert(vr, version_id,
                                    FabricRepository(root.api, version_id,
                                        root.vanilla_version, loader)))
                       ELSE d1
    /\ opSetups' = <<>>
    /\ task' = 0
    /\ i' = 0
    /\ k' = 0
    /\ matched' = FALSE
    /\ UNCHANGED <<tasks, pc, phase, todo, passed, watcherVars, otherVars>>

FabricNext ==
    \/ \E t \in {1, 2}, index \in 0..Len(tasks) : InsertTask(t, index)
    \/ \E w \in {"w1"} : AddWatcher(w)
    \/ \E v \in FabricRoots : StInsert(v)
    \/ \E answer \in BackendAnswers \cup {RequestFailed} :
          FabricExecute(answer)
    \/ Reset

FabricSpec == Init /\ [][FabricNext]_vars

---------------------------------------------------------------------------
(* cmd(handler, ns): the handler runs, and cmd reports the exception it    *)
(* raised, if any, and exits.                                              *)
EXIT_OK == 0
EXIT_FAILURE == 1

(* The direct base classes of the exception classes cmd can meet: those of *)
(* the standard library, and Exception for the program's own.              *)
Bases(cls) ==
    CASE cls = "BaseException" -> {}
      [] cls \in {"Exception", "KeyboardInterrupt", "SystemExit"} ->
            {"BaseException"}
      [] cls \in {"URLError", "gaierror", "timeout", "SSLError",
                  "ConnectionRefusedError", "FileNotFoundError"} ->
            {"OSError"}
      [] cls = "HTTPError" -> {"URLError"}
      [] cls = "SSLCertVerificationError" -> {"SSLError", "ValueError"}
      [] OTHER -> {"Exception"}

(* isinstance(error, base), for an error of class cls.                     *)
RECURSIVE IsInstance(_, _)
IsInstance(cls, base) ==
    cls = base \/ \E b \in Bases(cls) : IsInstance(b, base)

(* An exception: its class, the class of its `reason` (URLError), and what *)
(* it carries: args, errors (DownloadError), versions (TooMuchParents-     *)
(* Error), code (JvmNotFoundError).                                        *)
Exc(cls, reason, args, errors, versions) ==
    [cls |-> cls, reason |-> reason, args |-> args, errors |-> errors,
     versions |-> versions]
NoException == Exc(None, None, <<>>, <<>>, <<>>)

(* One ns.out.task(state, key, **kwargs) call, followed by finish().       *)
Line(state, key, arg) == [state |-> state, key |-> key, arg |-> arg]

(* The except clauses of cmd, in the order they are written.               *)
Handlers ==
    <<"ValueError", "KeyboardInterrupt", "OSError", "VersionNotFoundError",
      "TooMuchParentsError", "JarNotFoundError", "JvmNotFoundError",
      "DownloadError">>

(* The clause that catches an error of class cls: the first it is an       *)
(* instance of; None when no clause does and the error leaves cmd.         *)
Caught(cls) ==
    LET hits == {h \in 1..Len(Handlers) : IsInstance(cls, Handlers[h])}
    IN IF hits = {} THEN None
       ELSE Handlers[CHOOSE h \in hits : \A g \in hits : h <= g]

(* The two isinstance tests of the OSError clause.                         *)
TestHolds(test, exc) ==
    IF test = "error.cert"
    THEN IsInstance(exc.cls, "URLError")
           /\ exc.reason /= None
           /\ IsInstance(exc.reason, "SSLCertVerificationError")
    ELSE \E c \in {"URLError", "gaierror", "timeout"} : IsInstance(exc.cls, c)

TestOrderSocketFirst == <<"error.socket", "error.cert">>

(* if <cert test> ... elif <socket test> ...                               *)
TestOrder == <<"error.cert", "error.socket">>

(* key = "error.os", replaced by the key of the first test that holds.     *)
OsKeyIn(order, exc) ==
    IF TestHolds(order[1], exc) THEN order[1]
    ELSE IF TestHolds(order[2], exc) THEN order[2]
    ELSE "error.os"
OsKey(exc) == OsKeyIn(TestOrder, exc)

JoinFirst(ids) == IF ids = <<>> THEN "" ELSE ids[1]

(* ", ".join(ids).                                                         *)
RECURSIVE Join(_)
Join(ids) ==
    IF ids = <<>> THEN ""
    ELSE IF Len(ids) = 1 THEN ids[1]
    ELSE ids[1] \o ", " \o Join(Tail(ids))

DownloadErrorFirstLine(errors) ==
    IF errors = <<>> THEN <<>>
    ELSE <<Line(None, "download.error", <<errors[1][1], errors[1][2]>>)>>

(* for entry, code in error.errors: one "download.error" line each.        *)
DownloadErrorLines(errors) ==
    [j \in 1..Len(errors) |->
        Line(None, "download.error", <<errors[j][1], errors[j][2]>>)]

(* What cmd prints for the exception the handler raised.                   *)
Report(exc) ==
    LET clause == Caught(exc.cls)
        failed == Line("FAILED", None, <<>>)
    IN CASE clause = "ValueError" ->
              <<failed>> \o [j \in 1..Len(exc.args) |->
                                Line(None, "echo", <<exc.args[j]>>)]
         [] clause = "KeyboardInterrupt" ->
              <<Line("HALT", "error.keyboard_interrupt", <<>>)>>
         [] clause = "OSError" ->
              <<failed, Line(None, OsKey(exc), <<>>)>>
         [] clause = "VersionNotFoundError" ->
              <<Line("FAILED", "start.version.not_found", exc.args)>>
         [] clause = "TooMuchParentsError" ->
              <<Line("FAILED", "start.version.too_much_parents", <<>>),
                Line(None, "echo", <<Join(exc.versions)>>)>>
         [] clause = "JarNotFoundError" ->
              <<Line("FAILED", "start.jar.not_found", <<>>)>>
         [] clause = "JvmNotFoundError" ->
              <<Line("FAILED", "start.jvm.not_found." \o exc.args[1], <<>>)>>
         [] clause = "DownloadError" ->
              <<failed>> \o DownloadErrorLines(exc.errors)
         [] OTHER -> <<>>

(* The status of a sys.exit(n) the handler calls itself, n being 0 or 2.   *)
ExitStatus(exc) == IF exc.args = <<"0">> THEN 0 ELSE 2

CmdEndFallThrough(exc) ==
    IF exc = NoException THEN [pc |-> "exited", code |-> EXIT_OK]
    ELSE IF exc.cls = "SystemExit"
    THEN [pc |-> "exited", code |-> ExitStatus(exc)]
    ELSE IF Caught(exc.cls) = None THEN [pc |-> "uncaught", code |-> -1]
    ELSE [pc |-> "exited", code |-> EXIT_OK]

(* How cmd ends: sys.exit(EXIT_OK) when the handler returned, sys.exit(    *)
(* EXIT_FAILURE) after a clause caught the exception; an exception no      *)
(* clause catches leaves cmd, and a SystemExit, which none catches, ends   *)
(* the process with its own status.                                        *)
CmdEnd(exc) ==
    IF exc = NoException THEN [pc |-> "exited", code |-> EXIT_OK]
    ELSE IF exc.cls = "SystemExit"
    THEN [pc |-> "exited", code |-> ExitStatus(exc)]
    ELSE IF Caught(exc.cls) = None THEN [pc |-> "uncaught", code |-> -1]
    ELSE [pc |-> "exited", code |-> EXIT_FAILURE]

(* cmd after its handler ended with exc, having printed `printed`.         *)
CmdResult(exc, printed) ==
    [pc |-> CmdEnd(exc).pc, code |-> CmdEnd(exc).code, exc |-> exc,
     out |-> printed \o Report(exc)]

---------------------------------------------------------------------------
(* The download engine, DownloadList.run(session, watcher, workerCount),   *)
(* as a pull queue: each worker takes the next entry nobody has taken,     *)
(* attempts it, records a failure or not, and goes on until the queue is   *)
(* empty; the run ends when every worker has finished.  cmd's handler      *)
(* runs it, with a DownloadWatcher attached.                               *)

\* The largest number of entries of a run, and the number of workers.
MaxEntries == 3
WorkerCount == 2

EntryNames == {"client.jar", "lib.jar", "index.json", "logging.xml"}
ErrorCodes == {"conn", "sha1"}
DlWorkers == 0..(WorkerCount - 1)

QueueKeep(queue, e) == queue

(* The queue after a worker took e from it.                                *)
QueueTake(queue, e) == queue \ {e}

(* DownloadWatcher.on_event: the line an event makes it print.             *)
OnEventLines(ev) ==
    CASE ev = "DownloadStart" -> <<Line("..", "download.start", <<>>)>>
      [] ev = "DownloadComplete" -> <<Line("OK", None, <<>>)>>
      [] OTHER -> <<>>

(* The engine emits an event: every watcher's on_event receives it.        *)
Emit(ev) == cli' = [cli EXCEPT !.out = @ \o OnEventLines(ev)]

DlFrame ==
    UNCHANGED <<installerVars, pc, log, result, call, data, hist, res, dw>>

(* run() starts on a list of entries: DownloadStart is emitted and the     *)
(* workers are started.                                                    *)
DlRun(es) ==
    /\ dl.pc = "idle"
    /\ cli.pc = "idle"
    /\ dl' = [dl EXCEPT !.pc = "running", !.queue = es, !.live = DlWorkers,
                        !.cur = [w \in DlWorkers |-> None],
                        !.assigned = [e \in es |-> {}],
                        !.attempts = [e \in es |-> 0],
                        !.status = [e \in es |-> "none"],
                        !.events = <<"DownloadStart">>]
    /\ Emit("DownloadStart")
    /\ DlFrame

(* Worker w takes an entry and starts its transfer.                        *)
DlTake(w) ==
    /\ dl.pc = "running"
    /\ w \in dl.live
    /\ dl.cur[w] = None
    /\ \E e \in dl.queue :
         dl' = [dl EXCEPT !.queue = QueueTake(dl.queue, e),
                          !.cur[w] = e,
                          !.assigned[e] = @ \cup {w},
                          !.attempts[e] = @ + 1]
    /\ UNCHANGED cli
    /\ DlFrame

(* The transfer of worker w ends well: the file is in place.               *)
DlSucceed(w) ==
    /\ dl.pc = "running"
    /\ w \in dl.live
    /\ dl.cur[w] /= None
    /\ dl' = [dl EXCEPT !.cur[w] = None, !.status[dl.cur[w]] = "ok"]
    /\ UNCHANGED cli
    /\ DlFrame

(* The transfer of worker w fails, by transport or by digest: (entry,      *)
(* code) is recorded and the worker goes on.                               *)
DlFail(w, code) ==
    /\ dl.pc = "running"
    /\ w \in dl.live
    /\ dl.cur[w] /= None
    /\ dl' = [dl EXCEPT !.cur[w] = None, !.status[dl.cur[w]] = code,
                        !.failures = Append(@, <<dl.cur[w], code>>)]
    /\ UNCHANGED cli
    /\ DlFrame

(* Worker w finds the queue empty and finishes.                            *)
DlWorkerExit(w) ==
    /\ dl.pc = "running"
    /\ w \in dl.live
    /\ dl.cur[w] = None
    /\ dl.queue = {}
    /\ dl' = [dl EXCEPT !.live = @ \ {w}]
    /\ UNCHANGED cli
    /\ DlFrame

(* All workers have finished: the run fails with the failure list, or      *)
(* emits DownloadComplete.                                                 *)
DlJoin ==
    /\ dl.pc = "running"
    /\ dl.live = {}
    /\ IF dl.failures /= <<>>
       THEN /\ dl' = [dl EXCEPT !.pc = "done", !.outcome = "DownloadError",
                                !.carried = dl.failures]
            /\ UNCHANGED cli
       ELSE /\ dl' = [dl EXCEPT !.pc = "done", !.outcome = "complete",
                                !.events = Append(@, "DownloadComplete")]
            /\ Emit("DownloadComplete")
    /\ DlFrame

(* The run is over and cmd's handler ends with it: by raising the          *)
(* DownloadError, or by returning.                                         *)
CmdDownload ==
    /\ dl.pc = "done"
    /\ cli.pc = "idle"
    /\ cli' = CmdResult(IF dl.outcome = "DownloadError"
                        THEN Exc("DownloadError", None, <<>>, dl.carried, <<>>)
                        ELSE NoException,
                        cli.out)
    /\ UNCHANGED dl
    /\ DlFrame

DownloadNext ==
    \/ \E es \in SUBSET EntryNames :
         Cardinality(es) <= MaxEntries /\ DlRun(es)
    \/ \E w \in DlWorkers : DlTake(w)
    \/ \E w \in DlWorkers : DlSucceed(w)
    \/ \E w \in DlWorkers, code \in ErrorCodes : DlFail(w, code)
    \/ \E w \in DlWorkers : DlWorkerExit(w)
    \/ DlJoin
    \/ CmdDownload

DownloadSpec == Init /\ [][DownloadNext]_vars

---------------------------------------------------------------------------
(* Metadata resolution, run by cmd's handler: from the root identifier,    *)
(* load the metadata of the current version; without parent reference      *)
(* stop; otherwise put the version on the chain, count one more level and  *)
(* go on with the parent, failing once the count exceeds the maximum.      *)

\* The maximum number of parents of a version.
MaxParents == 2

VersionIds == {"v1", "v2", "v3", "v4"}

(* The metadata documents on disk or on the server: for each version, the  *)
(* version it inherits from, if any.                                       *)
ParentMaps == [VersionIds -> VersionIds \cup {None}]

DepthExceeded(depth) == depth > MaxParents

ResFrame ==
    UNCHANGED <<installerVars, pc, log, result, call, data, hist, dl, dw>>

(* The resolution starts on a root version.                                *)
ResStart(root, parent) ==
    /\ res.pc = "idle"
    /\ cli.pc = "idle"
    /\ res' = [pc |-> "running", root |-> root, cur |-> root,
               chain |-> <<>>, depth |-> 0, parent |-> parent]
    /\ UNCHANGED cli
    /\ ResFrame

(* One iteration of the loop.                                              *)
ResStep ==
    /\ res.pc = "running"
    /\ LET chain == Append(res.chain, res.cur)
           up == res.parent[res.cur]
       IN IF up = None
          THEN res' = [res EXCEPT !.pc = "done", !.chain = chain]
          ELSE IF DepthExceeded(res.depth + 1)
          THEN res' = [res EXCEPT !.pc = "failed", !.chain = chain,
                                  !.depth = @ + 1]
          ELSE res' = [res EXCEPT !.chain = chain, !.depth = @ + 1,
                                  !.cur = up]
    /\ UNCHANGED cli
    /\ ResFrame

(* The resolution is over and cmd's handler ends with it: by raising       *)
(* TooMuchParentsError(versions), or by returning.                         *)
CmdResolve ==
    /\ res.pc \in {"done", "failed"}
    /\ cli.pc = "idle"
    /\ cli' = CmdResult(IF res.pc = "failed"
                        THEN Exc("TooMuchParentsError", None, <<>>, <<>>,
                                 res.chain)
                        ELSE NoException,
                        cli.out)
    /\ UNCHANGED res
    /\ ResFrame

ResolveNext ==
    \/ \E root \in VersionIds, parent \in ParentMaps : ResStart(root, parent)
    \/ ResStep
    \/ CmdResolve

(* The loop and cmd run on one thread that nothing suspends.               *)
ResolveSpec ==
    Init /\ [][ResolveNext]_vars /\ WF_vars(ResStep) /\ WF_vars(CmdResolve)

---------------------------------------------------------------------------
(* cmd on its own: the handler raises some exception, or returns.          *)

(* The sequences of one or two different elements of a set.                *)
ShortSeqs(S) ==
    {<<x>> : x \in S} \cup {p \in S \X S : p[1] /= p[2]}

(* What the transport raises: a URLError with its reason, the socket       *)
(* errors, other OSErrors, a bare certificate error, and the typed error   *)
(* of a response whose status is not 2xx.                                  *)
TransportErrors ==
    {Exc("URLError", r, <<>>, <<>>, <<>>) :
        r \in {"SSLCertVerificationError", "gaierror", "timeout",
               "ConnectionRefusedError", "SSLError"}}
    \cup {Exc(c, None, <<>>, <<>>, <<>>) :
            c \in {"gaierror", "timeout", "ConnectionRefusedError",
                   "FileNotFoundError", "OSError",
                   "SSLCertVerificationError", "HttpError"}}

(* The exceptions a handler can end with.                                  *)
HandlerErrors ==
    TransportErrors
    \cup {Exc("ValueError", None, a, <<>>, <<>>) :
            a \in {<<>>} \cup ShortSeqs({"invalid version", "bad argument",
                                     "bad login"})}
    \cup {Exc("KeyboardInterrupt", None, <<>>, <<>>, <<>>),
          Exc("JarNotFoundError", None, <<>>, <<>>, <<>>),
          Exc("SystemExit", None, <<"0">>, <<>>, <<>>),
          Exc("SystemExit", None, <<"2">>, <<>>, <<>>),
          Exc("TypeError", None, <<>>, <<>>, <<>>)}
    \cup {Exc("VersionNotFoundError", None, <<v>>, <<>>, <<>>) :
            v \in VersionIds}
    \cup {Exc("JvmNotFoundError", None, <<c>>, <<>>, <<>>) :
            c \in {"unsupported_arch", "unsupported_version"}}
    \cup {Exc("TooMuchParentsError", None, <<>>, <<>>, vs) :
            vs \in ShortSeqs(VersionIds)}
    \cup {Exc("DownloadError", None, <<>>, es, <<>>) :
            es \in ShortSeqs(EntryNames \X ErrorCodes)}

(* cmd(handler, ns), the handler ending with exc.                          *)
CmdRaise(exc) ==
    /\ cli.pc = "idle"
    /\ dl.pc = "idle"
    /\ res.pc = "idle"
    /\ cli' = CmdResult(exc, cli.out)
    /\ UNCHANGED <<installerVars, pc, log, result, call, data, hist, dl, res,
                   dw>>

CmdNext == \E exc \in HandlerErrors \cup {NoException} : CmdRaise(exc)

CmdSpec == Init /\ [][CmdNext]_vars

---------------------------------------------------------------------------
(* The DownloadWatcher on its own: the engine delivers DownloadStartEvent, *)
(* then DownloadProgressEvents of its workers, then DownloadCompleteEvent, *)
(* and may be run again.  dw.seen lists the progress events delivered      *)
(* since the last start; dw.shown is the line out.task last displayed.     *)

\* The most progress events of one run, runs, and workers of a run.
MaxProgress == 3
MaxStarts == 2
MaxThreads == 2

(* What the events carry: counts of entries, sizes in bytes, speeds.       *)
EntryCounts == {1, 3}
TotalSizes == {10}
DeltaSizes == {1, 4}
Speeds == {2, 3}

DownloadStartEvent(entries_count, size, threads_count) ==
    [name |-> "DownloadStart", entries_count |-> entries_count,
     size |-> size, threads_count |-> threads_count, thread_id |-> 0,
     speed |-> 0, count |-> 0]
DownloadProgressEvent(thread_id, size, count, speed) ==
    [name |-> "DownloadProgress", entries_count |-> 0, size |-> size,
     threads_count |-> 0, thread_id |-> thread_id, speed |-> speed,
     count |-> count]
DownloadCompleteEvent ==
    [name |-> "DownloadComplete", entries_count |-> 0, size |-> 0,
     threads_count |-> 0, thread_id |-> 0, speed |-> 0, count |-> 0]

(* sum(self.speeds), the list having n slots, indexed from 0.              *)
RECURSIVE SumSlots(_, _)
SumSlots(speeds, n) ==
    IF n = 0 THEN 0 ELSE SumSlots(speeds, n - 1) + speeds[n - 1]

AccumulateLast(size, delta) == delta

(* self.size += event.size.                                                *)
Accumulate(size, delta) == size + delta

(* out.task(state, key, **kwargs): the line on display.                    *)
Shown(state, key, speed, count, total_count, size) ==
    [state |-> state, key |-> key, speed |-> speed, count |-> count,
     total_count |-> total_count, size |-> size]

(* DownloadWatcher.on_event(event): the watcher after it.                  *)
DwOnEvent(w, ev) ==
    CASE ev.name = "DownloadStart" ->
           [w EXCEPT !.started = TRUE,
                     !.entries_count = ev.entries_count,
                     !.total_size = ev.size,
                     !.size = 0,
                     !.speeds = [t \in 0..(ev.threads_count - 1) |-> 0],
                     !.shown = Shown(OnEventLines(ev.name)[1].state,
                                     OnEventLines(ev.name)[1].key, 0, 0, 0, 0),
                     !.seen = <<>>,
                     !.starts = @ + 1]
      [] ev.name = "DownloadProgress" ->
           LET speeds == [w.speeds EXCEPT ![ev.thread_id] = ev.speed]
               size == Accumulate(w.size, ev.size)
           IN [w EXCEPT !.speeds = speeds,
                        !.size = size,
                        !.shown = Shown("..", "download.progress",
                                        SumSlots(speeds, Cardinality(DOMAIN speeds)),
                                        ev.count, w.entries_count, size),
                        !.seen = Append(@, ev)]
      [] ev.name = "DownloadComplete" ->
           [w EXCEPT !.shown = Shown(OnEventLines(ev.name)[1].state,
                                     OnEventLines(ev.name)[1].key, 0, 0, 0, 0)]

DwFrame ==
    UNCHANGED <<installerVars, pc, log, result, call, data, hist, dl, res,
                cli>>

(* The engine starts a run and emits DownloadStartEvent.                   *)
DwStart(entries_count, size, threads_count) ==
    /\ dw.starts < MaxStarts
    /\ dw' = DwOnEvent(dw, DownloadStartEvent(entries_count, size,
                                              threads_count))
    /\ DwFrame

(* A worker of the running engine reports progress.                        *)
DwProgress(thread_id, size, count, speed) ==
    /\ dw.started
    /\ Len(dw.seen) < MaxProgress
    /\ thread_id \in DOMAIN dw.speeds
    /\ dw' = DwOnEvent(dw, DownloadProgressEvent(thread_id, size, count,
                                                 speed))
    /\ DwFrame

(* The run ends well and the engine emits DownloadCompleteEvent.           *)
DwComplete ==
    /\ dw.started
    /\ dw.shown.state /= "OK"
    /\ dw' = DwOnEvent(dw, DownloadCompleteEvent)
    /\ DwFrame

WatcherNext ==
    \/ \E entries_count \in EntryCounts, size \in TotalSizes,
          threads_count \in 1..MaxThreads :
         DwStart(entries_count, size, threads_count)
    \/ \E thread_id \in 0..(MaxThreads - 1), size \in DeltaSizes,
          speed \in Speeds :
         DwProgress(thread_id, size, Len(dw.seen) + 1, speed)
    \/ DwComplete

WatcherSpec == Init /\ [][WatcherNext]_vars

---------------------------------------------------------------------------
Next ==
    \/ \E t \in Fresh, index \in -1..(Len(tasks) + 1) : InsertTask(t, index)
    \/ \E t \in Fresh, after \in TaskTypes \cup {None} : AppendTask(t, after)
    \/ AppendLoop
    \/ AppendReturn
    \/ \E t \in Fresh, before \in TaskTypes \cup {None} : PrependTask(t, before)
    \/ PrependLoop
    \/ PrependReturn
    \/ \E w \in Watchers : AddWatcher(w)
    \/ \E w \in Watchers : RemoveWatcher(w)
    \/ Install
    \/ InstallBegin
    \/ InstallExecute
    \/ InstallExecuted
    \/ InstallEnd
    \/ InstallNext

Spec == Init /\ [][Next]_vars

---------------------------------------------------------------------------
(* The log of an install run, read as a stream of events.                  *)
Pos == 1..Len(log)

Rank(ev) ==
    CASE ev = "on_task_begin" -> 0
      [] ev = "execute" -> 1
      [] ev = "executed" -> 2
      [] ev = "on_task_end" -> 3

Entries(ev, j) == {p \in Pos : log[p].ev = ev /\ log[p].k = j}
EntriesTo(ev, j, w) == {p \in Entries(ev, j) : log[p].w = w}

InstallReturned ==
    pc = "idle" /\ call.name = "install" /\ result = "returned"

\* C1: install handles the tasks strictly in list order; for each task every
\* attached watcher gets on_task_begin, then execute is called, then every
\* attached watcher gets on_task_end; nothing of task k+1 (notification or
\* execute) happens before all on_task_end of task k, and the execute of one
\* task has ended before the execute of another is called.
C1_InstallOrder ==
    /\ \A p \in Pos :
         /\ log[p].k < Len(tasks)
         /\ log[p].task = tasks[log[p].k + 1]
    /\ \A p \in Pos :
         p < Len(log) =>
           \/ log[p].k < log[p + 1].k
           \/ /\ log[p].k = log[p + 1].k
              /\ Rank(log[p].ev) <= Rank(log[p + 1].ev)
    /\ \A p \in Pos :
         LET j == log[p].k
         IN /\ Cardinality(Entries("execute", j)) <= 1
            /\ Cardinality(Entries("executed", j)) <= 1
            /\ Rank(log[p].ev) >= 1 =>
                 \A w \in watchers : EntriesTo("on_task_begin", j, w) /= {}
            /\ Rank(log[p].ev) >= 2 => Entries("execute", j) /= {}
            /\ Rank(log[p].ev) >= 3 => Entries("executed", j) /= {}
            /\ j > 0 =>
                 /\ Entries("executed", j - 1) /= {}
                 /\ \A w \in watchers : EntriesTo("on_task_end", j - 1, w) /= {}
    /\ InstallReturned =>
         \A j \in 0..(Len(tasks) - 1) :
           /\ Entries("execute", j) /= {}
           /\ \A w \in watchers : EntriesTo("on_task_end", j, w) /= {}

C1_Witness ==
    /\ InstallReturned
    /\ Len(tasks) >= 2
    /\ Cardinality(watchers) = 2
    /\ Len(log) = Len(tasks) * 6

\* C2: when a task's execute raises, the run aborts at once: the error
\* reaches the caller of install, every attached watcher had on_task_begin
\* for the failing task and none gets on_task_end for it, and no later task
\* is begun or executed.
C2_AbortOnError ==
    \A p \in Pos :
      (log[p].ev = "executed" /\ log[p].arg /= <<"returned">>) =>
        /\ p = Len(log)
        /\ pc = "idle"
        /\ call.name = "install"
        /\ <<result>> = log[p].arg
        /\ \A w \in watchers : EntriesTo("on_task_begin", log[p].k, w) /= {}
        /\ Entries("on_task_end", log[p].k) = {}
        /\ \A q \in Pos : log[q].k <= log[p].k

C2_Witness ==
    /\ pc = "idle"
    /\ call.name = "install"
    /\ result = "TaskError"
    /\ Len(tasks) >= 2
    /\ k = 0
    /\ Cardinality(watchers) = 2
    /\ Len(log) = 4

---------------------------------------------------------------------------
(* The tasks install visits, in the order it visits them.                  *)
RECURSIVE Visit(_, _)
Visit(ts, j) ==
    IF j < Len(ts) THEN <<ts[j + 1]>> \o Visit(ts, NextTaskIndex(j)) ELSE <<>>

VisitOrder(ts) == Visit(ts, 0)

HasType(ts, ty) == \E j \in 1..Len(ts) : TypeOf(ts[j]) = ty

(* Python index of the first task of type ty in ts.                        *)
FirstOfType(ts, ty) ==
    (CHOOSE j \in 1..Len(ts) :
       /\ TypeOf(ts[j]) = ty
       /\ \A h \in 1..(j - 1) : TypeOf(ts[h]) /= ty) - 1

RelativeCall == call.name \in {"append_task", "prepend_task"}

(* A relative insertion has dealt with its anchor once its loop has met a  *)
(* task of the anchor type, and at the latest when the method returns.     *)
AnchorHandled == matched \/ (pc = "idle" /\ result = "returned")

\* C3: after prepend_task(T, before=A) on a list that holds a task of type
\* A, install visits T strictly earlier than every task of type A that was
\* in the list.
C3_PrependVisitedFirst ==
    (/\ call.name = "prepend_task"
     /\ call.anchor /= None
     /\ HasType(call.tasks0, call.anchor)
     /\ AnchorHandled) =>
       LET order == VisitOrder(tasks)
       IN \E p \in 1..Len(order) :
            /\ order[p] = call.task
            /\ \A q \in 1..Len(order) :
                 (order[q] \in Range(call.tasks0)
                    /\ TypeOf(order[q]) = call.anchor) => p < q

\* C4: with a task of the anchor type in the list, prepend_task(T, before=A)
\* puts T immediately before the first task of type A and
\* append_task(T, after=A) immediately after it, the tasks already present
\* keeping their relative order.
C4_AdjacentToAnchor ==
    (/\ RelativeCall
     /\ call.anchor /= None
     /\ HasType(call.tasks0, call.anchor)
     /\ AnchorHandled) =>
       LET f == FirstOfType(call.tasks0, call.anchor)
       IN tasks = ListInsert(call.tasks0,
                             IF call.name = "prepend_task" THEN f ELSE f + 1,
                             call.task)

\* C5: with no task of the anchor type in the list, prepend_task(T, before=A)
\* makes T the first task and append_task(T, after=A) makes T the last one,
\* every task already present being kept once and in the same order.
C5_AbsentAnchorWholeList ==
    (/\ RelativeCall
     /\ call.anchor /= None
     /\ ~HasType(call.tasks0, call.anchor)
     /\ pc = "idle"
     /\ result = "returned") =>
       tasks = IF call.name = "prepend_task"
               THEN <<call.task>> \o call.tasks0
               ELSE call.tasks0 \o <<call.task>>

\* C6: an insertion method that has returned has called setup exactly
\* once, on the task its caller passed, that task being in the list by then.
C6_SetupOncePassedTask ==
    (/\ call.name \in {"insert_task", "append_task", "prepend_task"}
     /\ pc = "idle"
     /\ result = "returned") =>
       opSetups = <<[task |-> call.task, inList |-> TRUE]>>

Executions(t) == {p \in Pos : log[p].ev = "execute" /\ log[p].task = t}

\* C7: every task object was passed to an insertion method once; an install
\* run that returns has executed each of them exactly once, none twice and
\* none skipped.
C7_EachPassedTaskOnce ==
    InstallReturned =>
      /\ \A t \in passed : Cardinality(Executions(t)) = 1
      /\ Len(tasks) = Cardinality(passed)

\* C8: install calls each task as execute(state, watcher), so that the
\* events the task emits reach on_event of every attached watcher between
\* the task's on_task_begin and on_task_end.
C8_ExecuteGetsWatcher ==
    \A p \in Pos :
      /\ log[p].ev = "execute" => log[p].arg = <<"state", "watcher">>
      /\ log[p].ev = "executed" => log[p].arg /= <<"TypeError">>

---------------------------------------------------------------------------
Notifications == {"on_task_begin", "on_task_end"}

(* The place of an attached watcher in the order of registration.          *)
RegPos(w) == CHOOSE p \in 1..Len(regOrder) : regOrder[p] = w

(* The notification loop ev of task j has run to its end.                  *)
LoopDone(ev, j) ==
    IF ev = "on_task_begin"
    THEN Entries("execute", j) /= {}
    ELSE call.name = "install" /\ (k > j \/ InstallReturned)

\* C9 as stated: the notifications of one kind for one task reach the
\* watchers in the order in which add_watcher registered them.
C9_RegistrationOrder ==
    \A p, q \in Pos :
      (/\ p < q
       /\ log[p].ev \in Notifications
       /\ log[p].ev = log[q].ev
       /\ log[p].k = log[q].k) => RegPos(log[p].w) < RegPos(log[q].w)

\* C9 as amended: every notification (on_task_begin, on_task_end) is
\* delivered to each attached watcher exactly once, for every task of every
\* run, and to no other watcher; the order among the watchers is the
\* iteration order of the watcher set, not the registration order.
C9_EachWatcherOnce ==
    /\ \A p \in Pos :
         log[p].ev \in Notifications =>
           /\ log[p].w \in watchers
           /\ Cardinality(EntriesTo(log[p].ev, log[p].k, log[p].w)) = 1
    /\ \A ev \in Notifications, j \in 0..(Len(tasks) - 1) :
         LoopDone(ev, j) =>
           \A w \in watchers : Cardinality(EntriesTo(ev, j, w)) = 1

C9_Witness ==
    /\ InstallReturned
    /\ Len(tasks) >= 2
    /\ Cardinality(watchers) = 2
    /\ \E p, q \in Pos :
         /\ p < q
         /\ log[p].ev = "on_task_end"
         /\ log[q].ev = "on_task_end"
         /\ log[p].k = log[q].k
         /\ RegPos(log[p].w) > RegPos(log[q].w)

Occurrences(s, w) == Cardinality({p \in 1..Len(s) : s[p] = w})

\* C10: however many times add_watcher was called for a watcher since it
\* was last removed, the watcher is registered once and gets each
\* on_task_begin / on_task_end once per task; a single remove_watcher
\* detaches it, and a detached watcher gets no notification.
C10_AddIdempotent ==
    /\ \A w \in Watchers :
         /\ addCalls[w] >= 1 <=> w \in watchers
         /\ Occurrences(regOrder, w) = (IF addCalls[w] >= 1 THEN 1 ELSE 0)
         /\ \A ev \in Notifications, j \in 0..(Len(tasks) - 1) :
              /\ Cardinality(EntriesTo(ev, j, w)) <= 1
              /\ (w \in watchers /\ LoopDone(ev, j)) =>
                   Cardinality(EntriesTo(ev, j, w)) = 1
              /\ w \notin watchers => EntriesTo(ev, j, w) = {}
    /\ (call.name = "remove_watcher" /\ result = "returned") =>
         /\ call.adds >= 1
         /\ call.watcher \notin watchers
         /\ addCalls[call.watcher] = 0

C10_Witness ==
    /\ InstallReturned
    /\ Len(tasks) >= 1
    /\ Cardinality(watchers) = 2
    /\ \E w \in watchers :
         /\ addCalls[w] = 2
         /\ Cardinality(EntriesTo("on_task_begin", 0, w)) = 1
         /\ Cardinality(EntriesTo("on_task_end", 0, w)) = 1


---------------------------------------------------------------------------
(* C11: State.insert(v) followed by State.get(type(v)) returns v; an       *)
(* insert stores its value under the value's type, replacing what was      *)
(* there, and leaves the instances of every other type as they were; so    *)
(* the State holds, for each type, exactly the last value inserted of that *)
(* type since it was cleared.                                              *)
C11_InsertThenGet ==
    /\ (call.name = "State.insert") =>
          /\ DOMAIN data = DOMAIN call.data0 \cup {TypeKey(call.value)}
          /\ data[TypeKey(call.value)] = call.value
          /\ \A ty \in DOMAIN call.data0 :
                ty /= TypeKey(call.value) => data[ty] = call.data0[ty]
    /\ (call.name = "State.get" /\ call.prev = "State.insert"
          /\ call.key = TypeKey(call.prevValue)) =>
          (result = "returned" /\ call.ret = call.prevValue)
    /\ DOMAIN data = DOMAIN hist
    /\ \A ty \in DOMAIN hist : data[ty] = hist[ty]

\* A get of a type right after an insert that replaced its instance, while
\* another type had an instance too.
C11_Witness ==
    /\ call.name = "State.get"
    /\ call.prev = "State.insert"
    /\ call.key = TypeKey(call.prevValue)
    /\ call.key \in call.prevKeys
    /\ Cardinality(DOMAIN data) >= 2

(* C12: State.get never raises; for a type with no instance, whether never *)
(* inserted or inserted before a clear, it returns None; it returns the    *)
(* instance otherwise; and it leaves the State as it was.                  *)
C12_GetNeverFails ==
    (call.name = "State.get") =>
        /\ result = "returned"
        /\ data = call.data0
        /\ call.ret = IF call.key \in DOMAIN call.data0
                      THEN call.data0[call.key] ELSE NoneValue

\* A get of a type that had an instance until the clear just before it.
C12_Witness ==
    /\ call.name = "State.get"
    /\ call.prev = "State.clear"
    /\ call.key \in call.prevKeys
    /\ call.ret = NoneValue

(* C13: reset() clears the State and then calls setup once for every entry *)
(* of the task list, in list order: afterwards the State holds only what   *)
(* those setup calls inserted (no FabricRoot a caller stored, no           *)
(* MetadataRoot and no repository an execute registered), and the task     *)
(* list and the watcher set are as before the call.                        *)
C13_ResetReruns ==
    (call.name = "reset") =>
        /\ result = "returned"
        /\ tasks = call.tasks0
        /\ watchers = call.watchers0
        /\ Len(opSetups) = Len(tasks)
        /\ \A j \in 1..Len(tasks) : opSetups[j].task = tasks[j]
        /\ DOMAIN data \subseteq {"VersionRepositories"}
        /\ ("VersionRepositories" \in DOMAIN data) <=>
               (\E j \in 1..Len(tasks) : TypeOf(tasks[j]) = "MetadataTask")
        /\ \A ty \in DOMAIN data : data[ty] = NewRepositories

\* A reset of an installer with two tasks and a watcher, whose State held
\* a caller's FabricRoot, and a MetadataRoot and a repository registered
\* by an execute.
C13_Witness ==
    /\ call.name = "reset"
    /\ Len(tasks) >= 2
    /\ watchers /= {}
    /\ {"FabricRoot", "MetadataRoot", "VersionRepositories"}
           \subseteq DOMAIN call.data0
    /\ call.data0["VersionRepositories"] /= NewRepositories
    /\ "VersionRepositories" \in DOMAIN data

(* C14: insert_task(task, index) with index >= the number of tasks puts    *)
(* the task at the end of the list and raises nothing; with                *)
(* 0 <= index < the number of tasks it puts the task at exactly that       *)
(* (0-based) position; in both cases the list is one longer and the tasks  *)
(* that were in it keep their relative order.                              *)
C14_InsertPosition ==
    (call.name = "insert_task" /\ call.index >= 0) =>
        LET n == Len(call.tasks0)
            p == IF call.index >= n THEN n ELSE call.index
        IN /\ result = "returned"
           /\ Len(tasks) = n + 1
           /\ tasks[p + 1] = call.task
           /\ \A j \in 1..n :
                tasks[IF j <= p THEN j ELSE j + 1] = call.tasks0[j]

\* An insert_task with an index beyond the end of a non-empty list.
C14_Witness ==
    /\ call.name = "insert_task"
    /\ call.tasks0 /= <<>>
    /\ call.index > Len(call.tasks0)
    /\ tasks[Len(tasks)] = call.task

(* C15: when the State holds no FabricRoot, FabricInitTask.execute returns *)
(* having done nothing: the State is as it was (no MetadataRoot inserted,  *)
(* no repository registered), the watcher received no event and no         *)
(* request was sent to the backend.                                        *)
C15_NoRootNoOp ==
    (call.name = "execute" /\ "FabricRoot" \notin DOMAIN call.data0) =>
        /\ result = "returned"
        /\ data = call.data0
        /\ log = <<>>

\* An execute on a State without FabricRoot that holds other instances.
C15_Witness ==
    /\ call.name = "execute"
    /\ "FabricRoot" \notin DOMAIN call.data0
    /\ "VersionRepositories" \in DOMAIN call.data0
    /\ 2 \in Range(tasks)

(* C16: when the State holds a FabricRoot, an execute that returns has     *)
(* inserted a MetadataRoot and registered a FabricRepository under one     *)
(* identifier, prefix-vanillaVersion-loaderVersion, the loader version     *)
(* being the root's, or the backend's answer when the root has none; and   *)
(* an execute that follows a returned execute with the same backend        *)
(* answer leaves the State as that one left it.                            *)
C16_SynthesizedId ==
    (call.name = "execute" /\ "FabricRoot" \in DOMAIN call.data0
       /\ result = "returned") =>
        LET root == call.data0["FabricRoot"]
            asked == root.loader_version = None
            loader == IF asked THEN call.key ELSE root.loader_version
            id == root.prefix \o "-" \o root.vanilla_version \o "-" \o loader
            repos == data["VersionRepositories"].repos
        IN /\ data["FabricRoot"] = root
           /\ data["MetadataRoot"].version = id
           /\ id \in DOMAIN repos
           /\ repos[id].ty = "FabricRepository"
           /\ repos[id].version_id = id
           /\ repos[id].api = root.api
           /\ repos[id].vanilla_version = root.vanilla_version
           /\ repos[id].loader_version = loader
           /\ (call.prev = "execute" /\ call.prevResult = "returned"
                 /\ (asked => call.prevKey = call.key)) => data = call.data0

\* Two executes in a row on a root without loader version, the backend
\* giving the same answer to both.
C16_Witness ==
    /\ call.name = "execute"
    /\ result = "returned"
    /\ call.prev = "execute"
    /\ call.prevResult = "returned"
    /\ call.value /= NoneValue
    /\ call.value.loader_version = None
    /\ call.prevKey = call.key
    /\ Len(log) = 3
    /\ "MetadataRoot" \in DOMAIN data

(* C17: in a run of the download engine, at every moment and under every   *)
(* interleaving of the workers, no entry has been attempted more than      *)
(* once or handed to more than one worker, whether other entries failed or *)
(* not; and when the run is over every entry has been attempted exactly    *)
(* once.                                                                   *)
C17_EachEntryOnce ==
    \A e \in DOMAIN dl.attempts :
        /\ dl.attempts[e] <= 1
        /\ Cardinality(dl.assigned[e]) <= 1
        /\ Cardinality({w \in DOMAIN dl.cur : dl.cur[w] = e}) <= 1
        /\ (dl.pc = "done") =>
              (dl.attempts[e] = 1 /\ dl.status[e] /= "none")

\* A finished run over three entries in which both workers had entries,
\* one entry failed and another did not.
C17_Witness ==
    /\ dl.pc = "done"
    /\ Cardinality(DOMAIN dl.attempts) = 3
    /\ \A w \in DlWorkers : \E e \in DOMAIN dl.assigned : w \in dl.assigned[e]
    /\ \E e \in DOMAIN dl.status : dl.status[e] = "ok"
    /\ \E e \in DOMAIN dl.status : dl.status[e] \in ErrorCodes

\* The lines cmd printed for the failures of a run.
ErrorLines == SelectSeq(cli.out, LAMBDA l : l.key = "download.error")
Completes == SelectSeq(dl.events, LAMBDA ev : ev = "DownloadComplete")
FailedEntries == {e \in DOMAIN dl.status : dl.status[e] \in ErrorCodes}

(* C18: a download run has no outcome, and DownloadComplete is not         *)
(* emitted, before all workers have finished.  It then ends in one of two  *)
(* ways: if K >= 1 entries failed, with a download error that carries      *)
(* exactly the K (entry, code) pairs of those entries, and without         *)
(* DownloadComplete; if none failed, with exactly one DownloadComplete.    *)
(* cmd then prints one "download.error" line per carried pair, in order.   *)
C18_AggregateOutcome ==
    /\ (dl.pc /= "done") =>
          (dl.outcome = "none" /\ Completes = <<>> /\ cli.pc = "idle")
    /\ (dl.pc = "done") =>
          /\ dl.live = {}
          /\ dl.queue = {}
          /\ \A w \in DOMAIN dl.cur : dl.cur[w] = None
          /\ IF FailedEntries /= {}
             THEN /\ dl.outcome = "DownloadError"
                  /\ Completes = <<>>
                  /\ Len(dl.carried) = Cardinality(FailedEntries)
                  /\ {dl.carried[j] : j \in 1..Len(dl.carried)}
                       = {<<e, dl.status[e]>> : e \in FailedEntries}
             ELSE /\ dl.outcome = "complete"
                  /\ Len(Completes) = 1
                  /\ dl.carried = <<>>
    /\ (cli.pc /= "idle") =>
          /\ Len(ErrorLines) = Len(dl.carried)
          /\ \A j \in 1..Len(dl.carried) :
                ErrorLines[j].arg = <<dl.carried[j][1], dl.carried[j][2]>>
          /\ cli.code = IF dl.carried = <<>> THEN EXIT_OK ELSE EXIT_FAILURE

\* cmd has reported a run in which two entries failed and one did not.
C18_Witness ==
    /\ cli.pc = "exited"
    /\ Len(dl.carried) = 2
    /\ Len(ErrorLines) = 2
    /\ \E e \in DOMAIN dl.status : dl.status[e] = "ok"

\* The versions met by following the parent references from a version, for
\* at most n references.
RECURSIVE Walk(_, _, _)
Walk(parent, id, n) ==
    IF n = 0 \/ parent[id] = None THEN <<id>>
    ELSE <<id>> \o Walk(parent, parent[id], n - 1)

\* The number of parent references from the root, counted up to one past
\* the maximum.
Parents(parent, root) == Len(Walk(parent, root, MaxParents + 1)) - 1

\* The identifiers ids[1..n], separated by ", ".
RECURSIVE Listed(_, _)
Listed(ids, n) ==
    IF n = 0 THEN ""
    ELSE IF n = 1 THEN ids[1]
    ELSE Listed(ids, n - 1) \o ", " \o ids[n]

(* C19: metadata resolution always terminates, and cmd exits.  For a root  *)
(* with more parents than the maximum (a cycle has that many) it           *)
(* ends with the too-many-parents error, which carries the versions        *)
(* visited, from the root on, and cmd prints them; it ends well only for a *)
(* chain within the maximum.                                               *)
C19_Inv ==
    /\ res.depth <= MaxParents + 1
    /\ Len(res.chain) <= MaxParents + 1
    /\ (res.pc = "done") =>
          /\ Parents(res.parent, res.root) <= MaxParents
          /\ res.chain = Walk(res.parent, res.root, MaxParents)
    /\ (res.pc = "failed") =>
          /\ Parents(res.parent, res.root) > MaxParents
          /\ res.chain = Walk(res.parent, res.root, MaxParents)
    /\ (cli.pc /= "idle" /\ res.pc = "failed") =>
          /\ cli.pc = "exited"
          /\ cli.code = EXIT_FAILURE
          /\ cli.exc.versions = res.chain
          /\ cli.out = <<Line("FAILED", "start.version.too_much_parents", <<>>),
                         Line(None, "echo",
                              <<Listed(res.chain, Len(res.chain))>>)>>

(* C19, as a property of behaviours: the invariant above holds in every    *)
(* state, every resolution that runs ends, done or failed, and cmd exits.  *)
C19_Terminates ==
    /\ []C19_Inv
    /\ (res.pc = "running") ~> (res.pc \in {"done", "failed"})
    /\ (res.pc = "running") ~> (cli.pc = "exited")

\* cmd has reported the failure of a resolution on a 2-node cycle.
C19_Witness ==
    /\ cli.pc = "exited"
    /\ res.pc = "failed"
    /\ res.parent[res.root] /= res.root
    /\ res.parent[res.root] /= None
    /\ res.parent[res.parent[res.root]] = res.root

\* The kind of transport failure an exception stands for: a certificate
\* failure as urllib raises it, a name-resolution or timeout failure, a
\* response whose status is not 2xx; "other" for the rest.
Kind(exc) ==
    IF exc.cls = "URLError" /\ exc.reason = "SSLCertVerificationError"
    THEN "cert"
    ELSE IF exc.cls \in {"gaierror", "timeout"}
            \/ (exc.cls = "URLError" /\ exc.reason \in {"gaierror", "timeout"})
    THEN "dns"
    ELSE IF exc.cls = "HttpError" THEN "http"
    ELSE "other"

\* What cmd reports for exc when the tests of its OSError clause are made
\* in the given order.
ReportedIn(order, exc) ==
    IF Caught(exc.cls) = "OSError" THEN OsKeyIn(order, exc)
    ELSE IF Caught(exc.cls) = None THEN "uncaught"
    ELSE Caught(exc.cls)

TestOrders == {TestOrder, <<TestOrder[2], TestOrder[1]>>}

C21_ReturnsOneLonger ==
    RelativeCall =>
        /\ Len(tasks) <= Len(call.tasks0) + 1
        /\ (pc \in {"append_loop", "prepend_loop"}) =>
              Len(tasks) - i <= Len(call.tasks0)
        /\ (pc = "idle" /\ result = "returned") =>
              Len(tasks) = Len(call.tasks0) + 1

\* The progress events delivered since the last start: the sum of their
\* sizes up to the n-th, and the speed worker t reported last (0 if none).
RECURSIVE SeenSize(_)
SeenSize(n) == IF n = 0 THEN 0 ELSE SeenSize(n - 1) + dw.seen[n].size

LastSpeed(t) ==
    LET mine == {j \in 1..Len(dw.seen) : dw.seen[j].thread_id = t}
    IN IF mine = {} THEN 0
       ELSE dw.seen[CHOOSE j \in mine : \A h \in mine : h <= j].speed

RECURSIVE SumLastSpeeds(_)
SumLastSpeeds(ts) ==
    IF ts = {} THEN 0
    ELSE LET t == CHOOSE x \in ts : TRUE
         IN LastSpeed(t) + SumLastSpeeds(ts \ {t})

(* C22: after a DownloadStart and any interleaving of DownloadProgress     *)
(* events of workers 0..threads_count-1, the watcher's size is the sum of  *)
(* the sizes of the progress events since that start, its speed slot of    *)
(* each worker is the speed that worker reported last (0 if none), and     *)
(* the speed and size it displays are the sum of the slots and that size;  *)
(* a new DownloadStart puts size and slots back to 0.                      *)
C22_WatcherAggregates ==
    dw.started =>
        /\ dw.size = SeenSize(Len(dw.seen))
        /\ \A t \in DOMAIN dw.speeds : dw.speeds[t] = LastSpeed(t)
        /\ (dw.shown.key = "download.progress") =>
              /\ dw.shown.speed = SumLastSpeeds(DOMAIN dw.speeds)
              /\ dw.shown.size = dw.size
              /\ dw.shown.total_count = dw.entries_count
        /\ (dw.shown.key = "download.start") =>
              (dw.size = 0 /\ \A t \in DOMAIN dw.speeds : dw.speeds[t] = 0)

\* In a second run, worker 0 has reported two different speeds and worker
\* 1 one.
C22_Witness ==
    /\ dw.starts = 2
    /\ Len(dw.seen) = 3
    /\ dw.seen[1].thread_id = 0
    /\ dw.seen[2].thread_id = 1
    /\ dw.seen[3].thread_id = 0
    /\ dw.seen[1].speed /= dw.seen[3].speed
    /\ dw.shown.key = "download.progress"

\* The message keys of a report, and the keys some exception of another
\* clause of cmd is reported with.
Keys(lines) == {lines[j].key : j \in 1..Len(lines)} \ {None}
ForeignKeys(clause) ==
    UNION {Keys(Report(e)) :
             e \in {x \in HandlerErrors : Caught(x.cls) \notin {None, clause}}}

\* The handler returned, or exited with status 0 itself.
EndedWell(exc) ==
    exc = NoException \/ (exc.cls = "SystemExit" /\ ExitStatus(exc) = 0)

(* C23 as stated: cmd ends the process with EXIT_OK exactly when the       *)
(* handler returned normally or exited with 0 itself, and with             *)
(* EXIT_FAILURE for each of the eight handled kinds, each kind being       *)
(* reported under a message key of its own, one that no other kind is      *)
(* reported with.                                                          *)
C23_OwnKeyPerKind ==
    (cli.pc /= "idle") =>
        /\ (cli.pc = "exited" /\ cli.code = EXIT_OK) <=> EndedWell(cli.exc)
        /\ (Caught(cli.exc.cls) /= None) =>
              /\ cli.pc = "exited"
              /\ cli.code = EXIT_FAILURE
              /\ Keys(cli.out) \ ForeignKeys(Caught(cli.exc.cls)) /= {}

(* C23, amended: the statuses are as stated; every handled kind but        *)
(* ValueError is reported with a message key of its own; a ValueError is   *)
(* reported by FAILED and one echo line per argument, which is a report no *)
(* other kind gives; an exception of no handled kind leaves cmd without    *)
(* report.                                                                 *)
C23_ExitStatus ==
    (cli.pc /= "idle") =>
        /\ (cli.pc = "exited" /\ cli.code = EXIT_OK) <=> EndedWell(cli.exc)
        /\ (Caught(cli.exc.cls) /= None) =>
              /\ cli.pc = "exited"
              /\ cli.code = EXIT_FAILURE
              /\ cli.out /= <<>>
              /\ \A e \in HandlerErrors :
                    (Caught(e.cls) \notin {None, Caught(cli.exc.cls)}) =>
                        Report(e) /= cli.out
              /\ IF Caught(cli.exc.cls) = "ValueError"
                 THEN /\ Len(cli.out) = 1 + Len(cli.exc.args)
                      /\ cli.out[1] = Line("FAILED", None, <<>>)
                      /\ \A j \in 1..Len(cli.exc.args) :
                            cli.out[j + 1] =
                                Line(None, "echo", <<cli.exc.args[j]>>)
                 ELSE Keys(cli.out) \ ForeignKeys(Caught(cli.exc.cls)) /= {}
        /\ (Caught(cli.exc.cls) = None /\ ~EndedWell(cli.exc)) =>
              /\ cli.out = <<>>
              /\ cli.code /= EXIT_OK

\* cmd has reported a ValueError with two arguments and exited.
C23_Witness ==
    /\ cli.pc = "exited"
    /\ cli.code = EXIT_FAILURE
    /\ cli.exc.cls = "ValueError"
    /\ Len(cli.exc.args) = 2
    /\ Len(cli.out) = 3

===========================================================================
